---- MODULE Spec2Model ----
(***************************************************************************)
(* Model of app.py: the env helper class and main(), the script that adds  *)
(* a configured list of users to every matching GitLab group.              *)
(*                                                                         *)
(* Python values are tagged records so that Python's typed equality is     *)
(* kept: a str never equals an int (1 == "1" is False).  A str is a        *)
(* sequence of one-character strings.                                      *)
(***************************************************************************)
EXTENDS Integers, Sequences, FiniteSets, TLC

(***************************************************************************)
(* Bounds of the model.                                                    *)
(***************************************************************************)
\* number of groups the remote instance holds (gl.groups.list(all=True))
MaxGroups == 2
\* membership lookups of one run that may answer with a non-404 error
MaxFaults == 1
\* memberships that exist on the remote instance before the first run
MaxPre == 1

(***************************************************************************)
(* Python values.                                                          *)
(***************************************************************************)
PyNone == [t |-> "None", s |-> <<>>, n |-> 0]
PyStr(x) == [t |-> "str", s |-> x, n |-> 0]
PyInt(k) == [t |-> "int", s |-> <<>>, n |-> k]
PyBool(b) == [t |-> "bool", s |-> <<>>, n |-> IF b THEN 1 ELSE 0]

\* Python truth value: None, "", 0 and False are false
Truthy(v) == CASE v.t = "None" -> FALSE
               [] v.t = "str" -> v.s # <<>>
               [] OTHER -> v.n # 0

\* code points of the characters the model's strings are written with
Ord(c) == CASE c = "," -> 44
            [] c = "0" -> 48 [] c = "1" -> 49 [] c = "2" -> 50 [] c = "3" -> 51
            [] c = "4" -> 52 [] c = "5" -> 53
            [] c = "N" -> 78 [] c = "T" -> 84 [] c = "Y" -> 89
            [] c = "a" -> 97 [] c = "b" -> 98 [] c = "c" -> 99
            [] c = "e" -> 101 [] c = "n" -> 110 [] c = "o" -> 111
            [] c = "r" -> 114 [] c = "s" -> 115 [] c = "t" -> 116
            [] c = "u" -> 117 [] c = "x" -> 120 [] c = "y" -> 121

Digits == {"0", "1", "2", "3", "4", "5"}

\* str.lower() of one character
LowerChar(c) == CASE c = "N" -> "n" [] c = "T" -> "t" [] c = "Y" -> "y"
                  [] OTHER -> c

\* str.lower()
lower(s) == [k \in 1..Len(s) |-> LowerChar(s[k])]

\* str < str: lexicographic by code point, a proper prefix is smaller
RECURSIVE StrLess(_, _)
StrLess(a, b) ==
    IF b = <<>> THEN FALSE
    ELSE IF a = <<>> THEN TRUE
    ELSE IF Ord(Head(a)) # Ord(Head(b)) THEN Ord(Head(a)) < Ord(Head(b))
    ELSE StrLess(Tail(a), Tail(b))

\* str.split(separator) for a one-character separator
RECURSIVE split(_, _)
split(s, separator) ==
    IF \A k \in 1..Len(s) : s[k] # separator THEN <<s>>
    ELSE LET p == CHOOSE k \in 1..Len(s) :
                     s[k] = separator /\ \A j \in 1..(k-1) : s[j] # separator
         IN <<SubSeq(s, 1, p - 1)>> \o split(SubSeq(s, p + 1, Len(s)), separator)

\* set(list)
set(l) == {l[k] : k \in 1..Len(l)}

\* sorted(set of str): ascending list without repetition
RECURSIVE sorted(_)
sorted(S) ==
    IF S = {} THEN <<>>
    ELSE LET m == CHOOSE x \in S : \A y \in S \ {x} : StrLess(x.s, y.s)
         IN <<m>> \o sorted(S \ {m})

\* x in l
In(x, l) == \E k \in 1..Len(l) : l[k] = x

\* l.pop(k) for a 0-based index k: l without that element
pop(l, k) == [j \in 1..(Len(l) - 1) |-> IF j <= k THEN l[j] ELSE l[j + 1]]

\* int(str): the decimal value, or ValueError (ok = FALSE)
RECURSIVE DecimalValue(_)
DecimalValue(s) ==
    IF s = <<>> THEN 0
    ELSE 10 * DecimalValue(SubSeq(s, 1, Len(s) - 1)) + (Ord(s[Len(s)]) - 48)

\* int(x) of a str or an int
int(v) ==
    IF v.t = "str"
    THEN IF v.s # <<>> /\ \A k \in 1..Len(v.s) : v.s[k] \in Digits
         THEN [ok |-> TRUE, n |-> DecimalValue(v.s)]
         ELSE [ok |-> FALSE, n |-> 0]
    ELSE [ok |-> TRUE, n |-> v.n]

\* str(x) of a str or a bool
str(v) == CASE v.t = "str" -> v.s
            [] v.t = "bool" -> IF v.n = 1 THEN <<"T", "r", "u", "e">>
                                          ELSE <<"F", "a", "l", "s", "e">>
            [] OTHER -> <<>>

(***************************************************************************)
(* class env: one environment variable, resolved when it is constructed.   *)
(* environ maps every key to PyNone (unset) or to a str.                   *)
(***************************************************************************)
VARIABLES
    environ,        \* os.environ
    remote_users,   \* identifiers the instance resolves to a user
    remote_groups,  \* the groups of the instance, in listing order
    members,        \* the memberships of the instance
    pc,             \* position of main
    gitlab_token, users, i, exclude_groups, skip_blank, skip_nested,
    access_level, gl_groups, g, u, success_u, success_g, total_g,
    calls,          \* remote calls made in this run
    matched,        \* ids of the groups counted as matching in this run
    created,        \* memberships created in this run
    errors,         \* (group, user) lookups of this run answered by a non-404 error
    members0,       \* the memberships before the first run
    run,            \* number of the current run
    prev_errors     \* errors of the run before

vars == <<environ, remote_users, remote_groups, members, pc, gitlab_token,
          users, i, exclude_groups, skip_blank, skip_nested, access_level,
          gl_groups, g, u, success_u, success_g, total_g, calls, matched,
          created, errors, members0, run, prev_errors>>

NoKey == "-"

\* os.environ.get(key, default)
environ_get(key, default) ==
    IF environ[key] # PyNone THEN environ[key] ELSE default

\* env.__init__: the value of the variable, else of alt_key, else default
env(key, alt_key, default) ==
    LET alt_value == IF alt_key # NoKey THEN environ_get(alt_key, PyNone)
                     ELSE PyNone
    IN environ_get(key, IF alt_value # PyNone THEN alt_value ELSE default)

\* env.required: the value, or sys.exit() when it is None
required(value) == [exit |-> ~(value # PyNone), value |-> value]

\* env.int: the default when the value is false, else int(value)
env_int(value, default) ==
    IF ~Truthy(value) THEN [ok |-> TRUE, n |-> default.n]
    ELSE int(value)

TrueWords == {<<"t", "r", "u", "e">>, <<"t">>, <<"y", "e", "s">>, <<"y">>,
              <<"o", "n">>, <<"1">>}

\* env.boolean: the default when the value is false
boolean(value, default) ==
    IF ~Truthy(value) THEN Truthy(default)
    ELSE lower(str(value)) \in TrueWords

\* env.list: [] when the value is false, else value.split(separator)
list(value, separator) ==
    IF ~Truthy(value) THEN <<>>
    ELSE LET parts == split(value.s, separator)
         IN [k \in 1..Len(parts) |-> PyStr(parts[k])]

(***************************************************************************)
(* gitlab.const and the levels dict of main.                               *)
(***************************************************************************)
DEVELOPER_ACCESS == 30
MAINTAINER_ACCESS == 40
levels == {0, 10, 20, 30, 40, 50}

\* a range test in place of the lookup in levels
LevelInRange(level) == level >= 0 /\ level <= 50

\* access_level in levels
LevelOk(level) == level \in levels

(***************************************************************************)
(* The remote instance.  A group is [id, parent_id, projects], its id an   *)
(* int as the REST API's JSON gives it, parent_id PyNone for a top-level   *)
(* group, projects the number of its projects.  A membership is            *)
(* [group, user, access_level].  A call is [op, group, user].              *)
(***************************************************************************)
Call(op, gid, user) == [op |-> op, group |-> gid, user |-> user]

\* group.members.get(user): whether the instance holds the membership
IsMember(gid, user) == \E m \in members : m.group = gid /\ m.user = user

\* a lookup under a key that the instance never answers
members_get_wrong_key(resp, gid, user) ==
    IF resp # "ok" THEN resp ELSE "404"

\* the answer to group.members.get(user), resp the state of the connection
members_get(resp, gid, user) ==
    IF resp # "ok" THEN resp
    ELSE IF IsMember(gid, user) THEN "found" ELSE "404"

\* the membership group.members.create(...) is asked to add
NewMember(gid, user) ==
    [group |-> gid, user |-> user, access_level |-> DEVELOPER_ACCESS]

\* a response_code test that is true of every answer but "found" failing
ShouldCreateOnAnyGetError(answer) == answer \in {"404", "error"}

\* a create that does not wait for the lookup to fail
ShouldCreateAlways(answer) == answer \in {"404", "found"}

\* a response_code test the wrong way round
ShouldCreateInverted(answer) == answer = "error"

\* the except-branch of the member loop that adds the user:
\* a GitlabGetError whose response_code is 404
ShouldCreate(answer) == answer = "404"

\* the three skip rules of the group loop, in order; listed tells whether
\* group.projects.list() had to be called
GroupFilter(group) ==
    IF In(group.id, exclude_groups)
    THEN [skip |-> TRUE, listed |-> FALSE]
    ELSE IF skip_nested /\ group.parent_id # PyNone
    THEN [skip |-> TRUE, listed |-> FALSE]
    ELSE IF skip_blank
    THEN [skip |-> group.projects < 1, listed |-> TRUE]
    ELSE [skip |-> FALSE, listed |-> FALSE]

(***************************************************************************)
(* main().  A remote call answers "ok" or "error" (the connection or the   *)
(* server fails); group.members.get also answers "exception" for a failure *)
(* that is no GitlabGetError.  sys.exit() and an uncaught exception both   *)
(* end the process: pc = "exited".                                         *)
(***************************************************************************)
Key == [token |-> "GITLAB_PRIVATE_TOKEN", users |-> "GITLAB_FILLING_USERS",
        exclude |-> "GITLAB_EXCLUDE_GROUPS", blank |-> "SKIP_BLANK_GROUPS",
        nested |-> "SKIP_NESTED_GROUPS", level |-> "GITLAB_USERS_ACCESS_LEVEL"]

\* lines 133-139: the token, login_gitlab, the sorted list of users
Connect ==
    /\ pc = "start"
    /\ LET r == required(env(Key.token, NoKey, PyNone))
       IN IF r.exit
          THEN /\ pc' = "exited"
               /\ UNCHANGED <<gitlab_token, calls, users>>
          ELSE \E resp \in {"ok", "error"} :
               /\ gitlab_token' = r.value
               /\ calls' = calls \cup {Call("auth", 0, PyNone)}
               /\ IF resp = "ok"
                  THEN /\ pc' = "users"
                       /\ users' = sorted(set(list(env(Key.users, NoKey, PyNone), ",")))
                  ELSE /\ pc' = "exited"
                       /\ UNCHANGED users
    /\ UNCHANGED <<environ, remote_users, remote_groups, members, i,
                   exclude_groups, skip_blank, skip_nested, access_level,
                   gl_groups, g, u, success_u, success_g, total_g, matched,
                   created, errors, members0, run, prev_errors>>

\* lines 141-151: one pass of the loop over enumerate(users); the list
\* iterator yields users[i] while i < len(users), whatever was popped
CheckUser ==
    /\ pc = "users"
    /\ i < Len(users)
    /\ LET val == users[i + 1]
       IN \E resp \in {"ok", "error"} :
          /\ calls' = calls \cup {Call("users.get", 0, val)}
          /\ IF resp = "error"
             THEN pc' = "exited" /\ UNCHANGED <<users, i>>
             ELSE /\ pc' = pc
                  /\ i' = i + 1
                  /\ users' = IF val \in remote_users THEN users
                              ELSE pop(users, i)
    /\ UNCHANGED <<environ, remote_users, remote_groups, members,
                   gitlab_token, exclude_groups, skip_blank, skip_nested,
                   access_level, gl_groups, g, u, success_u, success_g,
                   total_g, matched, created, errors, members0, run,
                   prev_errors>>

\* lines 153-174: the other settings and the check of the access level
LoadEnv ==
    /\ pc = "users"
    /\ i >= Len(users)
    /\ exclude_groups' = sorted(set(list(env(Key.exclude, NoKey, PyNone), ",")))
    /\ skip_blank' = boolean(env(Key.blank, NoKey, PyBool(TRUE)), PyBool(TRUE))
    /\ skip_nested' = boolean(env(Key.nested, NoKey, PyBool(TRUE)), PyBool(TRUE))
    /\ LET parsed == env_int(env(Key.level, NoKey, PyInt(DEVELOPER_ACCESS)),
                             PyInt(DEVELOPER_ACCESS))
       IN IF ~parsed.ok
          THEN pc' = "exited" /\ UNCHANGED access_level
          ELSE /\ access_level' = parsed.n
               /\ pc' = IF LevelOk(parsed.n) THEN "groups" ELSE "exited"
    /\ UNCHANGED <<environ, remote_users, remote_groups, members,
                   gitlab_token, users, i, gl_groups, g, u, success_u,
                   success_g, total_g, calls, matched, created, errors,
                   members0, run, prev_errors>>

\* lines 176-180: the list of all groups, the counters
GetGroups ==
    /\ pc = "groups"
    /\ \E resp \in {"ok", "error"} :
       /\ calls' = calls \cup {Call("groups.list", 0, PyNone)}
       /\ IF resp = "error"
          THEN /\ pc' = "exited"
               /\ UNCHANGED <<gl_groups, g, success_u, success_g, total_g>>
          ELSE /\ pc' = "group_loop"
               /\ gl_groups' = [k \in 1..Len(remote_groups) |-> remote_groups[k].id]
               /\ g' = 0
               /\ success_u' = 0 /\ success_g' = 0 /\ total_g' = 0
    /\ UNCHANGED <<environ, remote_users, remote_groups, members,
                   gitlab_token, users, i, exclude_groups, skip_blank,
                   skip_nested, access_level, u, matched, created, errors,
                   members0, run, prev_errors>>

\* the record gl.groups.get(id) answers with
RemoteGroup(id) == CHOOSE r \in set(remote_groups) : r.id = id

\* lines 182-202: the next group of the list, fetched and filtered
NextGroup ==
    /\ pc = "group_loop"
    /\ g < Len(gl_groups)
    /\ LET group == RemoteGroup(gl_groups[g + 1])
           gid == group.id.n
           f == GroupFilter(group)
       IN \E resp \in {"ok", "get_error", "list_error"} :
          IF resp = "get_error"
          THEN /\ calls' = calls \cup {Call("groups.get", gid, PyNone)}
               /\ pc' = "exited"
               /\ UNCHANGED <<g, u, total_g, success_g, matched>>
          ELSE /\ calls' = calls \cup {Call("groups.get", gid, PyNone)}
                            \cup (IF f.listed
                                  THEN {Call("projects.list", gid, PyNone)}
                                  ELSE {})
               /\ total_g' = total_g + 1
               /\ IF f.listed /\ resp = "list_error"
                  THEN pc' = "exited" /\ UNCHANGED <<g, u, success_g, matched>>
                  ELSE IF f.skip
                  THEN pc' = pc /\ g' = g + 1 /\ UNCHANGED <<u, success_g, matched>>
                  ELSE /\ success_g' = success_g + 1
                       /\ matched' = matched \cup {gid}
                       /\ u' = 0
                       /\ IF users = <<>>
                          THEN pc' = pc /\ g' = g + 1
                          ELSE pc' = "member_loop" /\ g' = g
    /\ UNCHANGED <<environ, remote_users, remote_groups, members,
                   gitlab_token, users, i, exclude_groups, skip_blank,
                   skip_nested, access_level, gl_groups, success_u, created,
                   errors, members0, run, prev_errors>>

\* lines 204-226: one pass of the loop over users, for the group at hand
MemberStep ==
    /\ pc = "member_loop"
    /\ LET user == users[u + 1]
           gid == gl_groups[g + 1].n
           last == u + 1 >= Len(users)
       IN \E resp \in {"ok", "error", "exception"}, cresp \in {"ok", "error"} :
          LET answer == members_get(resp, gid, user)
              advance == /\ u' = IF last THEN 0 ELSE u + 1
                         /\ g' = IF last THEN g + 1 ELSE g
                         /\ pc' = IF last THEN "group_loop" ELSE pc
          IN /\ resp = "error" => Cardinality(errors) < MaxFaults
             /\ errors' = IF answer = "error" THEN errors \cup {<<gid, user>>}
                          ELSE errors
             /\ IF ShouldCreate(answer)
                THEN /\ calls' = calls \cup {Call("members.get", gid, user),
                                              Call("members.create", gid, user)}
                     /\ IF cresp = "ok"
                        THEN /\ members' = members \cup {NewMember(gid, user)}
                             /\ created' = created \cup {NewMember(gid, user)}
                             /\ success_u' = success_u + 1
                             /\ advance
                        ELSE /\ pc' = "exited"
                             /\ UNCHANGED <<members, created, success_u, u, g>>
                ELSE /\ calls' = calls \cup {Call("members.get", gid, user)}
                     /\ UNCHANGED <<members, created, success_u>>
                     /\ IF answer = "exception"
                        THEN pc' = "exited" /\ UNCHANGED <<u, g>>
                        ELSE advance
    /\ UNCHANGED <<environ, remote_users, remote_groups, gitlab_token, users,
                   i, exclude_groups, skip_blank, skip_nested, access_level,
                   gl_groups, success_g, total_g, matched, members0, run,
                   prev_errors>>

\* lines 228-233: the summary
Summary ==
    /\ pc = "group_loop"
    /\ g >= Len(gl_groups)
    /\ pc' = "done"
    /\ UNCHANGED <<environ, remote_users, remote_groups, members,
                   gitlab_token, users, i, exclude_groups, skip_blank,
                   skip_nested, access_level, gl_groups, g, u, success_u,
                   success_g, total_g, calls, matched, created, errors,
                   members0, run, prev_errors>>

\* lines 235-239: the script is started again, on the same environment and
\* the same instance, after a run that reached its summary
Rerun ==
    /\ pc = "done"
    /\ run = 1
    /\ run' = 2
    /\ prev_errors' = errors
    /\ pc' = "start"
    /\ gitlab_token' = PyNone /\ users' = <<>> /\ i' = 0
    /\ exclude_groups' = <<>> /\ skip_blank' = FALSE /\ skip_nested' = FALSE
    /\ access_level' = 0 /\ gl_groups' = <<>> /\ g' = 0 /\ u' = 0
    /\ success_u' = 0 /\ success_g' = 0 /\ total_g' = 0
    /\ calls' = {} /\ matched' = {} /\ created' = {} /\ errors' = {}
    /\ UNCHANGED <<environ, remote_users, remote_groups, members, members0>>

(***************************************************************************)
(* The configurations checked.  Each family varies one part of the         *)
(* environment and of the instance over all its values and fixes the rest. *)
(***************************************************************************)
a == PyStr(<<"a">>)
b == PyStr(<<"b">>)
c == PyStr(<<"c">>)

TokenValues == {PyNone, PyStr(<<>>), PyStr(<<"t">>)}
UsersValues == {PyNone, PyStr(<<"b", ",", "a", ",", "b">>),
                PyStr(<<"c", ",", "a", ",", "b">>)}
ExcludeValues == {PyNone, PyStr(<<"2">>), PyStr(<<"2", ",", "1">>)}
BlankValues == {PyNone, PyStr(<<"Y">>), PyStr(<<"n", "o">>)}
NestedValues == {PyNone, PyStr(<<"N", "o">>)}
LevelValues == {PyNone, PyStr(<<>>), PyStr(<<"0">>), PyStr(<<"2", "5">>),
                PyStr(<<"4", "0">>), PyStr(<<"x">>)}

\* the lists of n groups: ids 1..n, the first a top-level group, a later one
\* top-level or a child of the first, each with no project or one
GroupLists(n) ==
    LET shapes == [parent_id : {PyNone, PyInt(1)}, projects : {0, 1}]
    IN {[k \in 1..n |-> [id |-> PyInt(k), parent_id |-> f[k].parent_id,
                         projects |-> f[k].projects]] :
           f \in {h \in [1..n -> shapes] : n >= 1 => h[1].parent_id = PyNone}}

\* n top-level groups with one project each
PlainGroups(n) ==
    [k \in 1..n |-> [id |-> PyInt(k), parent_id |-> PyNone, projects |-> 1]]

\* the sets of at most MaxPre memberships of the users us in groups 1..n
PreMembers(n, us) ==
    LET all == {[group |-> k, user |-> x, access_level |-> MAINTAINER_ACCESS] :
                   k \in 1..n, x \in us}
    IN {S \in SUBSET all : Cardinality(S) <= MaxPre}

\* the instance and the environment of a run
Config(token, us, rusers, exclude, blank, nested, level, groups, pre) ==
    /\ environ = (Key.token :> token) @@ (Key.users :> us)
                 @@ (Key.exclude :> exclude) @@ (Key.blank :> blank)
                 @@ (Key.nested :> nested) @@ (Key.level :> level)
    /\ remote_users = rusers
    /\ remote_groups = groups
    /\ members = pre
    /\ members0 = pre

\* every token, list of users and set of existing users
UserRuns ==
    \E token \in TokenValues, us \in UsersValues,
       rusers \in SUBSET {a, b, c}, n \in 0..MaxGroups :
        Config(token, us, rusers, PyNone, PyNone, PyNone, PyNone,
               PlainGroups(n), {})

\* every exclusion list, skip flag, list of groups and set of memberships
GroupRuns ==
    \E exclude \in ExcludeValues, blank \in BlankValues,
       nested \in NestedValues, groups \in GroupLists(MaxGroups),
       pre \in PreMembers(MaxGroups, {a, b}) :
        Config(PyStr(<<"t">>), PyStr(<<"b", ",", "a", ",", "b">>), {a, b},
               exclude, blank, nested, PyNone, groups, pre)

\* every access level
LevelRuns ==
    \E level \in LevelValues, rusers \in {{a}, {a, b}},
       pre \in PreMembers(MaxGroups, {a, b}) :
        Config(PyStr(<<"t">>), PyStr(<<"b", ",", "a", ",", "b">>), rusers,
               PyNone, PyNone, PyNone, level, PlainGroups(MaxGroups), pre)

\* the state of main before its first line
Start ==
    /\ pc = "start"
    /\ gitlab_token = PyNone /\ users = <<>> /\ i = 0
    /\ exclude_groups = <<>> /\ skip_blank = FALSE /\ skip_nested = FALSE
    /\ access_level = 0 /\ gl_groups = <<>> /\ g = 0 /\ u = 0
    /\ success_u = 0 /\ success_g = 0 /\ total_g = 0
    /\ calls = {} /\ matched = {} /\ created = {} /\ errors = {}
    /\ run = 1 /\ prev_errors = {}

Init ==
    /\ UserRuns \/ GroupRuns \/ LevelRuns
    /\ Start

Next ==
    \/ Connect
    \/ CheckUser
    \/ LoadEnv
    \/ GetGroups
    \/ NextGroup
    \/ MemberStep
    \/ Summary

Spec == Init /\ [][Next]_vars

\* the runs that are repeated: every list of groups and set of memberships
TwiceRuns ==
    \E rusers \in {{b}, {a, b}}, groups \in GroupLists(MaxGroups),
       pre \in PreMembers(MaxGroups, {a, b}) :
        Config(PyStr(<<"t">>), PyStr(<<"b", ",", "a", ",", "b">>), rusers,
               PyNone, PyNone, PyNone, PyNone, groups, pre)

InitTwice ==
    /\ TwiceRuns
    /\ Start

\* two runs in sequence
NextTwice ==
    \/ Next
    \/ Rerun

SpecTwice == InitTwice /\ [][NextTwice]_vars

(***************************************************************************)
(* Properties.                                                             *)
(***************************************************************************)
\* the configured identifiers, deduplicated and sorted
Configured == sorted(set(list(env(Key.users, NoKey, PyNone), ",")))

\* user validation is over and main went on
Validated == pc \in {"groups", "group_loop", "member_loop", "done"}

\* C1: once user validation has finished without a fatal exit, the working
\* set is exactly the sorted configured identifiers that exist on the
\* instance (every identifier answered by 404 is gone), and every identifier
\* in it was looked up.
C1_WorkingSetIsFoundUsers ==
    Validated =>
        /\ users = sorted({x \in set(Configured) : x \in remote_users})
        /\ \A k \in 1..Len(users) : Call("users.get", 0, users[k]) \in calls

\* C1: a run where an identifier that does not exist stays in the working set
C1_GhostUserKept ==
    /\ Validated
    /\ \E k \in 1..Len(users) : users[k] \notin remote_users

\* C2: every membership created in a run carries the configured access level.
C2_CreatedAtConfiguredLevel ==
    \A m \in created : m.access_level = access_level

\* C2: a run that created a membership under a configured level other than 30
C2_CreatedUnderOtherLevel ==
    /\ created # {}
    /\ access_level # DEVELOPER_ACCESS

\* str(k): the way the id k is written in a setting
RECURSIVE Decimal(_)
Decimal(k) ==
    LET digit == <<"0", "1", "2", "3", "4", "5", "6", "7", "8", "9">>
    IN IF k < 10 THEN <<digit[k + 1]>>
       ELSE Decimal(k \div 10) \o <<digit[(k % 10) + 1]>>

\* the id k is listed in GITLAB_EXCLUDE_GROUPS
Listed(k) == In(PyStr(Decimal(k)), list(env(Key.exclude, NoKey, PyNone), ","))

\* the calls of this run that work on group k
GroupWork(k) ==
    {x \in calls : /\ x.group = k
                   /\ x.op \in {"projects.list", "members.get", "members.create"}}

\* C3: a group whose id is listed in GITLAB_EXCLUDE_GROUPS is never touched:
\* no project listing, membership lookup or creation is made for it and it
\* is not counted as matching.
C3_ExcludedGroupUntouched ==
    \A k \in 1..Len(remote_groups) :
        Listed(remote_groups[k].id.n) =>
            /\ GroupWork(remote_groups[k].id.n) = {}
            /\ remote_groups[k].id.n \notin matched

\* C3: a run that gave a listed group a new member
C3_ListedGroupFilled ==
    \E m \in created : Listed(m.group)

\* C4: every membership that existed before the run is still there with its
\* access level, a pair has one membership at most, and a new membership is
\* of a pair that had none.
C4_ExistingMembershipsKept ==
    /\ members0 \subseteq members
    /\ \A m \in members, m0 \in members :
          (m.group = m0.group /\ m.user = m0.user) => m = m0
    /\ created = members \ members0

\* C4: a finished run that looked up an existing membership and created
\* another one
C4_LookedUpExistingAndCreated ==
    /\ pc = "done"
    /\ created # {}
    /\ \E m \in members0 : Call("members.get", m.group, m.user) \in calls

\* the group passes the exclusion, nested and blank rules as they are stated
PassesRules(r) ==
    /\ ~Listed(r.id.n)
    /\ ~(skip_nested /\ r.parent_id # PyNone)
    /\ ~(skip_blank /\ r.projects = 0)

\* C6: when a run reaches the summary and no membership lookup answered with
\* a non-404 error, every user of the working set is a member of every
\* matching group, and every group that passes the exclusion, nested and
\* blank rules is a matching group.
C6_MatchingGroupsFilled ==
    (pc = "done" /\ errors = {}) =>
        /\ \A k \in 1..Len(remote_groups) :
              PassesRules(remote_groups[k]) => remote_groups[k].id.n \in matched
        /\ \A k \in matched, j \in 1..Len(users) : IsMember(k, users[j])

\* C6: a finished run without lookup errors that had to add a user to one
\* matching group and found the user in another
C6_FilledTwoGroups ==
    /\ pc = "done" /\ errors = {}
    /\ Cardinality(matched) >= 2
    /\ created # {}
    /\ \E m \in members0 : m.group \in matched /\ In(m.user, users)

\* the access level the environment resolves to
ResolvedLevel ==
    env_int(env(Key.level, NoKey, PyInt(DEVELOPER_ACCESS)),
            PyInt(DEVELOPER_ACCESS))

\* the calls of this run that belong to group processing
GroupCalls ==
    {x \in calls : x.op \in {"groups.list", "groups.get", "projects.list",
                              "members.get", "members.create"}}

\* C7: when the resolved access level is not one of 0, 10, 20, 30, 40, 50,
\* main ends before group processing: no group list, group detail, project
\* listing, membership lookup or creation, and no summary.
C7_BadLevelStopsBeforeGroups ==
    (ResolvedLevel.ok /\ ResolvedLevel.n \notin {0, 10, 20, 30, 40, 50}) =>
        /\ GroupCalls = {}
        /\ members = members0
        /\ pc \notin {"groups", "group_loop", "member_loop", "done"}

\* C7: a run that validated its users and then stopped at the level 25
C7_StoppedAtLevel ==
    /\ pc = "exited"
    /\ access_level = 25
    /\ \E x \in calls : x.op = "users.get"

\* C8: with GITLAB_PRIVATE_TOKEN unset or empty main exits before the login
\* or any other remote call.
C8_NoLoginWithoutToken ==
    ~Truthy(environ[Key.token]) => calls = {}

\* C8: a run that logged in with the empty token
C8_LoginWithEmptyToken ==
    /\ environ[Key.token] = PyStr(<<>>)
    /\ Call("auth", 0, PyNone) \in calls

\* the group is skipped by the exclusion, nested or blank rule
Skipped(r) == ~PassesRules(r)

\* C9: at the summary a group of the list was counted as matching, and has
\* a membership lookup for every user of the working set, exactly when none
\* of the rules (1) listed as excluded, (2) skip_nested and a parent,
\* (3) skip_blank and no project skips it; a skipped group has no membership
\* call, a nested group under skip_nested no project listing either, and
\* matching groups <= total groups = length of the list.
C9_ProcessedIffNotSkipped ==
    pc = "done" =>
        /\ \A k \in 1..Len(remote_groups) :
              LET r == remote_groups[k]
                  id == r.id.n
              IN /\ id \in matched <=> ~Skipped(r)
                 /\ Skipped(r) =>
                       ~\E x \in calls : /\ x.group = id
                                         /\ x.op \in {"members.get", "members.create"}
                 /\ ~Skipped(r) =>
                       \A j \in 1..Len(users) :
                           Call("members.get", id, users[j]) \in calls
                 /\ (skip_nested /\ r.parent_id # PyNone) =>
                       Call("projects.list", id, PyNone) \notin calls
        /\ success_g = Cardinality(matched)
        /\ success_g <= total_g
        /\ total_g = Len(gl_groups)

\* C9: a finished run that counted a listed group as matching
C9_ListedGroupMatched ==
    /\ pc = "done"
    /\ \E k \in matched : Listed(k)

\* C9 with rule (1) read as the test main makes, group.id in exclude_groups,
\* which no id passes
C9_ProcessedIffNotFiltered ==
    pc = "done" =>
        /\ \A k \in 1..Len(remote_groups) :
              LET r == remote_groups[k]
                  id == r.id.n
                  skipped == \/ skip_nested /\ r.parent_id # PyNone
                             \/ skip_blank /\ r.projects = 0
              IN /\ id \in matched <=> ~skipped
                 /\ skipped =>
                       ~\E x \in calls : /\ x.group = id
                                         /\ x.op \in {"members.get", "members.create"}
                 /\ ~skipped =>
                       \A j \in 1..Len(users) :
                           Call("members.get", id, users[j]) \in calls
        /\ success_g = Cardinality(matched)
        /\ total_g = Len(gl_groups)

\* the pairs of (matching group, user of the working set)
Pairs == {<<k, users[j]>> : k \in matched, j \in 1..Len(users)}

\* C10: a membership lookup answered by a non-404 error is local: no
\* membership is created for the pair, the counter of added users stays, the
\* loop goes on with the next user (or the next group) and the process is
\* not ended; at the summary every pair of a matching group and a user was
\* looked up and the counter equals the number of memberships created.
C10_LookupErrorIsLocal ==
    /\ [](\A p \in errors : ~\E m \in created : m.group = p[1] /\ m.user = p[2])
    /\ [](pc = "done" =>
            /\ success_u = Cardinality(created)
            /\ \A p \in Pairs : Call("members.get", p[1], p[2]) \in calls)
    /\ [][errors' # errors =>
            /\ pc' # "exited"
            /\ members' = members
            /\ success_u' = success_u
            /\ IF u + 1 < Len(users)
               THEN pc' = "member_loop" /\ u' = u + 1 /\ g' = g
               ELSE pc' = "group_loop" /\ g' = g + 1]_vars

\* C10: a finished run in which a lookup failed and a later one, of the same
\* group or of a later group, led to a new membership
C10_ErrorThenCreated ==
    /\ pc = "done"
    /\ \E p \in errors, m \in created :
          \/ m.group = p[1] /\ StrLess(p[2].s, m.user.s)
          \/ m.group > p[1]

====
